---------------------------- MODULE Spec2Model ----------------------------
(* Business Canvas (main.go): the editing session of the nine-section     *)
(* canvas -- undo/redo stacks, save/load, version restore -- running on   *)
(* the UI thread, and the autosave goroutine that appends Versions.       *)
(* The two run concurrently and share the nine Entry.Text fields,          *)
(* autoSave, lastSaved and versions without any lock.                      *)
EXTENDS Integers, Sequences, FiniteSets, TLC

(* ------------------------------ bounds -------------------------------- *)
MaxOps == 1        \* handlers the user triggers while the timer runs (Spec)
MaxTime == 10      \* minutes the clock runs (Spec): two ticks of the timer
SessionOps == 4    \* handlers the user triggers in an editing session (SpecSession)
MaxLen == 120      \* bytes of the longest text typed before validating (SpecTools)
ToolOps == 2       \* handlers the user triggers on the typed canvas (SpecTools)
RoundTripOps == 4  \* handlers the user triggers while pasting, saving and loading (SpecRoundTrip)

(* --------------------------- program constants ------------------------ *)
TickerPeriod == 5  \* time.NewTicker(5 * time.Minute)
SaveInterval == 5  \* time.Since(c.lastSaved) >= 5*time.Minute
NumSections == 9   \* totalSections := 9.0
Precision == 53    \* binary digits of a float64 significand

(* The nine widget.Entry fields of Canvas, in declaration order, and the  *)
(* CanvasData field each one is copied to and from.                       *)
Widgets == << "keyPartners", "keyActivities", "keyResources",
              "valueProposition", "customerRel", "channels",
              "customerSegments", "costStructure", "revenueStreams" >>

DataFields == << "KeyPartners", "KeyActivities", "KeyResources",
                 "ValueProposition", "CustomerRel", "Channels",
                 "CustomerSegments", "CostStructure", "RevenueStreams" >>

\* the json tags of CanvasData
JsonKeys == << "keyPartners", "keyActivities", "keyResources",
               "valueProposition", "customerRelationships", "channels",
               "customerSegments", "costStructure", "revenueStreams" >>

Range(s) == { s[i] : i \in DOMAIN s }

(* An Entry's Text is a Go string: a sequence of bytes, one per character  *)
(* for the ASCII characters the model types.                               *)
NoText == << >>
TextA == << "a" >>
TextB == << "b" >>

\* texts an Entry may hold in the model
Texts == { NoText, TextA, TextB }

\* texts the user leaves in an Entry by typing
Typed == { NoText, TextA }

\* the Entry widgets the user types into
TypedWidgets == { "keyPartners", "revenueStreams" }

VARIABLES
    text,        \* text[w]: the Text of Entry w (the live record)
    autoSave,    \* c.autoSave
    lastSaved,   \* c.lastSaved
    undoStack,   \* c.undoStack
    redoStack,   \* c.redoStack
    versions,    \* c.versions
    progress,    \* c.progressBar's value, as the number of filled sections
    file,        \* the document on disk written by saveCanvas
    now,         \* the wall clock, in minutes since the application started
    tickC,       \* ticker.C holds a tick (a channel of capacity one)
    pc,          \* UI thread: 0 between handlers, k = about to SetText the k-th Entry
    lastState,   \* UI thread: the CanvasData being installed (lastState / canvasData / version.Data)
    apc,         \* autosave goroutine: 0 in `range ticker.C`, 1 = entered saveCurrentVersion,
                 \* k+1 = getCurrentData about to read the k-th Entry, 11 = about to append
    version,     \* autosave goroutine: the Version under construction
    handler,     \* history: the handler the user triggered last, and how it went
    opsLeft,     \* handlers the user may still trigger
    horizon,     \* the minute at which the clock stops advancing
    chain,       \* history: progress of a checkpoint -> undo -> redo sequence of handlers
    idleData,    \* history: every live record that has stood between complete handlers
    results,     \* the []ValidationResult validateCanvas last showed
    rects,       \* the sections exportToPDF last drew, in drawing order
    saved,       \* history: the CanvasData the document in file was written from
    opened       \* history: the document loadCanvas last read

vars == << text, autoSave, lastSaved, undoStack, redoStack, versions, progress,
           file, now, tickC, pc, lastState, apc, version, handler,
           opsLeft, horizon, chain, idleData, results, rects, saved, opened >>

\* what validateCanvas and exportToPDF produce
toolVars == << results, rects >>

\* what saveCanvas and loadCanvas leave behind for the properties
ioVars == << saved, opened >>

\* what the autosave goroutine owns, and what only the UI thread writes
autoVars == << lastSaved, versions, now, tickC, apc, version, horizon >>

(* time.Time{}: the zero time lies further back than any interval.        *)
ZeroTime == 0 - SaveInterval

EmptyData == [ f \in Range(DataFields) |-> NoText ]

\* reading of one Entry's Text into the CanvasData field of the same position
ReadField(data, k) == [ data EXCEPT ![DataFields[k]] = text[Widgets[k]] ]

\* getCurrentData run by the UI thread, which owns the Entries
GetCurrentData ==
    [ KeyPartners      |-> text.keyPartners,
      KeyActivities    |-> text.keyActivities,
      KeyResources     |-> text.keyResources,
      ValueProposition |-> text.valueProposition,
      CustomerRel      |-> text.customerRel,
      Channels         |-> text.channels,
      CustomerSegments |-> text.customerSegments,
      CostStructure    |-> text.costStructure,
      RevenueStreams   |-> text.revenueStreams ]

\* the nine texts as a CanvasData, in any state (used by properties only)
DataOf(t) == [ f \in Range(DataFields) |->
                 t[Widgets[CHOOSE k \in 1..NumSections : DataFields[k] = f]] ]

\* updateProgress: the number of Entries with len(Text) > 0
FilledSections(t) == Cardinality({ w \in Range(Widgets) : Len(t[w]) > 0 })

\* the bottom of the stack instead of its top
TopIsFirst(stack) == stack[1]

Top(stack) == stack[Len(stack)]
Pop(stack) == SubSeq(stack, 1, Len(stack) - 1)

(* --------------------------- documents -------------------------------- *)
(* The bytes of a Go string that are no ASCII character: U+FFFD, the       *)
(* replacement character, is the three bytes 0xEF 0xBF 0xBD in UTF-8; any  *)
(* of them outside that sequence, and 0xFF anywhere, is invalid UTF-8.     *)
Replacement == << "0xEF", "0xBF", "0xBD" >>
HighBytes == { "0xEF", "0xBF", "0xBD", "0xFF" }

\* an escape left as it stands in the document
UnescapeVerbatim(token) == << token >>

\* the bytes a token of a JSON string stands for
Unescape(token) ==
    CASE token = "\\n"     -> << "\n" >>
      [] token = "\\\""    -> << "\"" >>
      [] token = "\\\\"    -> << "\\" >>
      [] token = "\\u003c" -> << "<" >>
      [] token = "\\ufffd" -> Replacement
      [] OTHER -> << token >>

\* encoding/json writing one byte that starts no multi-byte character:
\* escapes for control characters, quote, backslash and HTML's <, and
\* \ufffd for a byte that is invalid UTF-8
Escape(byte) ==
    CASE byte = "\n" -> "\\n"
      [] byte = "\"" -> "\\\""
      [] byte = "\\" -> "\\\\"
      [] byte = "<"  -> "\\u003c"
      [] byte \in HighBytes -> "\\ufffd"
      [] OTHER -> byte

\* the tokens of the JSON string for s, from its i-th byte on
RECURSIVE QuoteFrom(_, _)
QuoteFrom(s, i) ==
    IF i > Len(s) THEN << >>
    ELSE IF i + 2 <= Len(s) /\ SubSeq(s, i, i + 2) = Replacement
    THEN Replacement \o QuoteFrom(s, i + 3)
    ELSE << Escape(s[i]) >> \o QuoteFrom(s, i + 1)

Quote(s) == QuoteFrom(s, 1)

\* the Go string of a JSON string written by Quote
RECURSIVE Unquote(_)
Unquote(tokens) ==
    IF Len(tokens) = 0 THEN << >>
    ELSE Unescape(Head(tokens)) \o Unquote(Tail(tokens))

(* A persisted document: well formed or not, and its members by json key, *)
(* each a JSON string.                                                     *)
MarshalIndent(data) ==
    [ wellFormed |-> TRUE,
      members |-> [ k \in Range(JsonKeys) |->
                      Quote(data[DataFields[CHOOSE i \in 1..NumSections : JsonKeys[i] = k]]) ] ]

\* json.Unmarshal into a zero CanvasData: a missing key leaves the empty string
Unmarshal(doc) ==
    [ f \in Range(DataFields) |->
        LET k == JsonKeys[CHOOSE i \in 1..NumSections : DataFields[i] = f]
        IN  IF k \in DOMAIN doc.members THEN Unquote(doc.members[k]) ELSE NoText ]

\* zero bytes on disk: nothing written yet, or a write that failed
NoFile == [ wellFormed |-> FALSE, members |-> << >> ]

\* documents the user may open besides the one saved by saveCanvas
DocFull ==
    [ wellFormed |-> TRUE,
      members |-> [ k \in Range(JsonKeys) |->
                      CASE k = "keyPartners" -> TextB
                        [] k = "customerRelationships" -> TextA
                        [] k = "revenueStreams" -> TextB
                        [] OTHER -> NoText ] ]
DocPartial == [ wellFormed |-> TRUE, members |-> [ k \in {"valueProposition"} |-> TextB ] ]
DocMalformed == [ wellFormed |-> FALSE, members |-> [ k \in {"keyPartners"} |-> TextB ] ]

OpenableDocs == { DocFull, DocPartial, DocMalformed } \cup { file }

\* the autosave goroutine's Version variable outside saveCurrentVersion
NoVersion == [ ID |-> 0, Timestamp |-> ZeroTime, Data |-> EmptyData, Comments |-> << >> ]

\* no checkpoint -> undo -> redo sequence is under way
NoChain == [ phase |-> 0, kind |-> "none", A |-> EmptyData, B |-> EmptyData ]

(* ------------------------------- Init --------------------------------- *)
Start ==
    /\ text = [ w \in Range(Widgets) |-> NoText ]
    /\ autoSave = TRUE
    /\ lastSaved = ZeroTime
    /\ undoStack = << >>
    /\ redoStack = << >>
    /\ versions = << >>
    /\ progress = 0
    /\ file = NoFile
    /\ now = 0
    /\ tickC = FALSE
    /\ pc = 0
    /\ lastState = EmptyData
    /\ apc = 0
    /\ version = NoVersion
    /\ handler = "none"
    /\ chain = NoChain
    /\ idleData = { EmptyData }
    /\ results = << >>
    /\ rects = << >>
    /\ saved = EmptyData
    /\ opened = NoFile

\* the application starts; the user triggers MaxOps handlers while the timer runs
Init == Start /\ opsLeft = MaxOps /\ horizon = MaxTime

\* the first tick has come and gone with nothing typed: one Version of the empty canvas
QuietFirstSave ==
    /\ text = [ w \in Range(Widgets) |-> NoText ]
    /\ autoSave = TRUE
    /\ lastSaved = TickerPeriod
    /\ undoStack = << >>
    /\ redoStack = << >>
    /\ versions = << [ ID |-> 1, Timestamp |-> TickerPeriod,
                        Data |-> EmptyData, Comments |-> << >> ] >>
    /\ progress = 0
    /\ file = NoFile
    /\ now = TickerPeriod
    /\ tickC = FALSE
    /\ pc = 0
    /\ lastState = EmptyData
    /\ apc = 0
    /\ version = NoVersion
    /\ handler = "none"
    /\ chain = NoChain
    /\ idleData = { EmptyData }
    /\ results = << >>
    /\ rects = << >>
    /\ saved = EmptyData
    /\ opened = NoFile

\* an editing session of SessionOps handlers, begun at the start of the application
\* or after the first autosave, with the autosave goroutine waiting for its next tick
InitSession ==
    /\ Start \/ QuietFirstSave
    /\ opsLeft = SessionOps
    /\ horizon = MaxTime

(* ====================== the UI thread's handlers ====================== *)
\* the user triggers a handler
Enter == pc = 0 /\ opsLeft > 0 /\ opsLeft' = opsLeft - 1

\* the handler ends leaving live record t
Idle(t) == idleData' = idleData \cup { DataOf(t) }

\* what a handler that installs nothing leaves alone
NothingInstalled == UNCHANGED << text, progress, pc, lastState >> /\ Idle(text)

(* Typing into one Entry (widget.Entry): only its Text changes.            *)
Type(w, t) ==
    /\ Enter
    /\ text[w] # t
    /\ text' = [ text EXCEPT ![w] = t ]
    /\ handler' = "type"
    /\ chain' = NoChain
    /\ Idle(text')
    /\ UNCHANGED << autoSave, undoStack, redoStack, progress, file, pc, lastState >>
    /\ UNCHANGED autoVars
    /\ UNCHANGED toolVars
    /\ UNCHANGED ioVars

\* what the clipboard may hold: any Go string, valid UTF-8 or not
Clipboard ==
    { << " ", "\n", "a" >>, << "\"", "\\", "<" >>,
      Replacement, << "0xFF" >>, << "a", "0xEF", "0xBF" >> }

\* the Entry the user pastes into
PasteWidgets == { "customerRel" }

(* Ctrl+V with Entry w focused: entry.SetText(Clipboard().Content()).      *)
Paste(w, content) ==
    /\ Enter
    /\ text[w] # content
    /\ text' = [ text EXCEPT ![w] = content ]
    /\ handler' = "paste"
    /\ chain' = NoChain
    /\ Idle(text')
    /\ UNCHANGED << autoSave, undoStack, redoStack, progress, file, pc, lastState >>
    /\ UNCHANGED autoVars
    /\ UNCHANGED toolVars
    /\ UNCHANGED ioVars

(* showSettings: the Auto-save check box's callback.                       *)
SetAutoSave(checked) ==
    /\ Enter
    /\ checked # autoSave
    /\ autoSave' = checked
    /\ handler' = "settings"
    /\ chain' = NoChain
    /\ NothingInstalled
    /\ UNCHANGED << undoStack, redoStack, file >>
    /\ UNCHANGED autoVars
    /\ UNCHANGED toolVars
    /\ UNCHANGED ioVars

\* undo() on an empty stack that still saves the current state for redo
UndoOnEmptyPushes ==
    /\ handler' = "undo:empty"
    /\ chain' = NoChain
    /\ NothingInstalled
    /\ redoStack' = Append(redoStack, GetCurrentData)
    /\ UNCHANGED undoStack

\* undo() when len(c.undoStack) > 0 is false: the body is skipped
UndoOnEmpty ==
    /\ handler' = "undo:empty"
    /\ chain' = NoChain
    /\ NothingInstalled
    /\ UNCHANGED << undoStack, redoStack >>

\* undo() that pops without saving the current state for redo
UndoForgetsLive ==
    /\ Enter
    /\ IF Len(undoStack) > 0
       THEN /\ lastState' = Top(undoStack)
            /\ undoStack' = Pop(undoStack)
            /\ pc' = 1
            /\ handler' = "undo"
            /\ chain' = IF chain.phase = 1 THEN [ chain EXCEPT !.phase = 2 ] ELSE NoChain
            /\ UNCHANGED << text, progress, idleData, redoStack >>
       ELSE UndoOnEmpty
    /\ UNCHANGED << autoSave, file >>
    /\ UNCHANGED autoVars
    /\ UNCHANGED toolVars
    /\ UNCHANGED ioVars

(* undo() *)
Undo ==
    /\ Enter
    /\ IF Len(undoStack) > 0
       THEN /\ redoStack' = Append(redoStack, GetCurrentData)
            /\ lastState' = Top(undoStack)
            /\ undoStack' = Pop(undoStack)
            /\ pc' = 1
            /\ handler' = "undo"
            /\ chain' = IF chain.phase = 1 THEN [ chain EXCEPT !.phase = 2 ] ELSE NoChain
            /\ UNCHANGED << text, progress, idleData >>
       ELSE UndoOnEmpty
    /\ UNCHANGED << autoSave, file >>
    /\ UNCHANGED autoVars
    /\ UNCHANGED toolVars
    /\ UNCHANGED ioVars

(* redo() *)
Redo ==
    /\ Enter
    /\ IF Len(redoStack) > 0
       THEN /\ undoStack' = Append(undoStack, GetCurrentData)
            /\ lastState' = Top(redoStack)
            /\ redoStack' = Pop(redoStack)
            /\ pc' = 1
            /\ handler' = "redo"
            /\ chain' = IF chain.phase = 2 THEN [ chain EXCEPT !.phase = 3 ] ELSE NoChain
            /\ UNCHANGED << text, progress, idleData >>
       ELSE /\ handler' = "redo:empty"
            /\ chain' = NoChain
            /\ NothingInstalled
            /\ UNCHANGED << undoStack, redoStack >>
    /\ UNCHANGED << autoSave, file >>
    /\ UNCHANGED autoVars
    /\ UNCHANGED toolVars
    /\ UNCHANGED ioVars

\* what the file-save dialog and the writer can do
SaveOutcomes == { "dialogError", "cancelled", "writeError", "ok" }

\* saveCanvas that drops the redo stack when it pushes onto the undo stack
SaveClearsRedo(outcome) ==
    /\ Enter
    /\ handler' = "save:" \o outcome
    /\ chain' = NoChain
    /\ NothingInstalled
    /\ IF outcome \in { "dialogError", "cancelled" }
       THEN UNCHANGED << undoStack, redoStack, file, saved >>
       ELSE /\ undoStack' = Append(undoStack, GetCurrentData)
            /\ redoStack' = << >>
            /\ file' = IF outcome = "ok" THEN MarshalIndent(GetCurrentData) ELSE NoFile
            /\ saved' = IF outcome = "ok" THEN GetCurrentData ELSE EmptyData
    /\ UNCHANGED << autoSave, opened >>
    /\ UNCHANGED autoVars
    /\ UNCHANGED toolVars

(* saveCanvas(): the callback of dialog.ShowFileSave *)
SaveCanvas(outcome) ==
    /\ Enter
    /\ handler' = "save:" \o outcome
    /\ chain' = NoChain
    /\ NothingInstalled
    /\ IF outcome \in { "dialogError", "cancelled" }
       THEN UNCHANGED << undoStack, file, saved >>
       ELSE /\ undoStack' = Append(undoStack, GetCurrentData)
            /\ file' = IF outcome = "ok" THEN MarshalIndent(GetCurrentData) ELSE NoFile
            /\ saved' = IF outcome = "ok" THEN GetCurrentData ELSE EmptyData
    /\ UNCHANGED << autoSave, redoStack, opened >>
    /\ UNCHANGED autoVars
    /\ UNCHANGED toolVars

\* what the file-open dialog and the reader can do
LoadOutcomes == { "dialogError", "cancelled", "readError", "read" }

\* the err of json.Unmarshal goes unchecked
LoadFailsOnReadOnly(outcome, doc) == outcome = "readError"

\* loadCanvas gets a reader and then io.ReadAll or json.Unmarshal returns an error
LoadFails(outcome, doc) == outcome = "readError" \/ (outcome = "read" /\ ~ doc.wellFormed)

\* what the user is shown of a load: the dialog's or the reader's error, the parse
\* error of a malformed document, or "Canvas loaded successfully"
LoadReport(outcome, doc) ==
    IF outcome # "read" THEN "load:" \o outcome
    ELSE IF doc.wellFormed THEN "load:ok" ELSE "load:parseError"

(* loadCanvas(): the callback of dialog.ShowFileOpen, reading document doc *)
LoadCanvas(outcome, doc) ==
    /\ Enter
    /\ handler' = LoadReport(outcome, doc)
    /\ IF outcome \in { "dialogError", "cancelled" }
       THEN /\ chain' = NoChain
            /\ NothingInstalled
            /\ UNCHANGED undoStack
       ELSE /\ undoStack' = Append(undoStack, GetCurrentData)
            /\ IF LoadFails(outcome, doc)
               THEN /\ chain' = NoChain
                    /\ NothingInstalled
               ELSE /\ lastState' = Unmarshal(doc)
                    /\ pc' = 1
                    /\ chain' = [ phase |-> 1, kind |-> "load",
                                  A |-> DataOf(text), B |-> Unmarshal(doc) ]
                    /\ UNCHANGED << text, progress, idleData >>
    /\ opened' = IF outcome = "read" THEN doc ELSE opened
    /\ UNCHANGED << autoSave, redoStack, file, saved >>
    /\ UNCHANGED autoVars
    /\ UNCHANGED toolVars

\* restoreVersion without the append to the undo stack
RestoreWithoutCheckpoint(id) ==
    /\ Enter
    /\ lastState' = versions[id].Data
    /\ pc' = 1
    /\ handler' = "restore"
    /\ chain' = [ phase |-> 1, kind |-> "restore",
                  A |-> DataOf(text), B |-> versions[id].Data ]
    /\ UNCHANGED << text, autoSave, undoStack, redoStack, progress, file, idleData >>
    /\ UNCHANGED autoVars
    /\ UNCHANGED toolVars
    /\ UNCHANGED ioVars

(* restoreVersion(c.versions[id]), from the version-history list *)
RestoreVersion(id) ==
    /\ Enter
    /\ undoStack' = Append(undoStack, GetCurrentData)
    /\ lastState' = versions[id].Data
    /\ pc' = 1
    /\ handler' = "restore"
    /\ chain' = [ phase |-> 1, kind |-> "restore",
                  A |-> DataOf(text), B |-> versions[id].Data ]
    /\ UNCHANGED << text, autoSave, redoStack, progress, file, idleData >>
    /\ UNCHANGED autoVars
    /\ UNCHANGED toolVars
    /\ UNCHANGED ioVars

(* One SetText of the nine that undo, redo, loadCanvas and restoreVersion  *)
(* run in Entry order; after the ninth, updateProgress.                    *)
SetText ==
    /\ pc \in 1..NumSections
    /\ text' = [ text EXCEPT ![Widgets[pc]] = lastState[DataFields[pc]] ]
    /\ IF pc = NumSections
       THEN /\ pc' = 0
            /\ progress' = FilledSections(text')
            /\ lastState' = EmptyData
            /\ Idle(text')
       ELSE /\ pc' = pc + 1
            /\ UNCHANGED << progress, lastState, idleData >>
    /\ UNCHANGED << autoSave, undoStack, redoStack, file, handler, opsLeft, chain >>
    /\ UNCHANGED autoVars
    /\ UNCHANGED toolVars
    /\ UNCHANGED ioVars

(* ========================== the validator ============================= *)
(* NewBusinessValidator: the rules in declaration order; min is the length *)
(* the rule's Check requires of the named Entry's Text.                    *)
rules ==
    << [ Section |-> "Value Proposition", entry |-> "valueProposition", min |-> 100,
         Message |-> "Consider adding more detail about your value proposition" ],
       [ Section |-> "Customer Segments", entry |-> "customerSegments", min |-> 50,
         Message |-> "Customer segments need more specific details" ],
       [ Section |-> "Key Activities", entry |-> "keyActivities", min |-> 50,
         Message |-> "Add more details about your key activities" ],
       [ Section |-> "Cost Structure", entry |-> "costStructure", min |-> 50,
         Message |-> "Elaborate on your cost structure" ],
       [ Section |-> "Revenue Streams", entry |-> "revenueStreams", min |-> 50,
         Message |-> "Provide more information about revenue streams" ] >>

\* a Check that asks for more than the minimum
CheckAboveMin(rule, t) == Len(t[rule.entry]) > rule.min

\* rule.Check(canvas): len(Text) >= min, len being the number of bytes
Check(rule, t) == Len(t[rule.entry]) >= rule.min

\* the loop of Validate from the i-th rule on, with the results appended so far
RECURSIVE ValidateFrom(_, _, _)
ValidateFrom(i, t, found) ==
    IF i > Len(rules) THEN found
    ELSE ValidateFrom(i + 1, t,
                      IF ~ Check(rules[i], t)
                      THEN Append(found, [ Section |-> rules[i].Section,
                                           Message |-> rules[i].Message ])
                      ELSE found)

\* BusinessValidator.Validate; a nil slice and an empty one are both << >>
Validate(t) == ValidateFrom(1, t, << >>)

(* validateCanvas(): the results it shows in the dialog *)
ValidateCanvas ==
    /\ Enter
    /\ results' = Validate(text)
    /\ handler' = "validate"
    /\ chain' = NoChain
    /\ NothingInstalled
    /\ UNCHANGED << autoSave, undoStack, redoStack, file, rects >>
    /\ UNCHANGED autoVars
    /\ UNCHANGED ioVars

(* ========================= float64 arithmetic ========================= *)
(* A natural number is the sequence of its digits to the base Radix, least *)
(* significant first, with no leading zero digit, so that no width limits  *)
(* it; a Radix digit holds DigitBits binary digits.                        *)
Radix == 2^15
DigitBits == 15

\* the element of a set of one element: a value taken through a bound
\* variable is computed once, however often the variable is used
The(S) == CHOOSE v \in S : TRUE

Digit(a, k) == IF k \in DOMAIN a THEN a[k] ELSE 0

Trim(a) ==
    The({ IF \A i \in DOMAIN v : v[i] = 0 THEN << >>
          ELSE SubSeq(v, 1, CHOOSE i \in DOMAIN v :
                              v[i] # 0 /\ \A j \in (i + 1)..Len(v) : v[j] = 0)
          : v \in { a } })

\* the digits of n < Radix^2
Digits(n) == Trim(<< n % Radix, n \div Radix >>)

RECURSIVE AddFrom(_, _, _, _)
AddFrom(a, b, k, carry) ==
    IF k > Len(a) /\ k > Len(b) THEN << carry >>
    ELSE The({ << sum % Radix >> \o AddFrom(a, b, k + 1, sum \div Radix)
               : sum \in { Digit(a, k) + Digit(b, k) + carry } })

NatAdd(a, b) == The({ Trim(AddFrom(x, y, 1, 0)) : x \in { a }, y \in { b } })

RECURSIVE SubFrom(_, _, _, _)
SubFrom(a, b, k, borrow) ==
    IF k > Len(a) THEN << >>
    ELSE The({ << diff % Radix >> \o SubFrom(a, b, k + 1, IF diff < Radix THEN 1 ELSE 0)
               : diff \in { Radix + Digit(a, k) - Digit(b, k) - borrow } })

\* a - b, for a >= b
NatSub(a, b) == The({ Trim(SubFrom(x, y, 1, 0)) : x \in { a }, y \in { b } })

RECURSIVE LessFrom(_, _, _)
LessFrom(a, b, k) ==
    IF k = 0 THEN FALSE
    ELSE IF Digit(a, k) # Digit(b, k) THEN Digit(a, k) < Digit(b, k)
    ELSE LessFrom(a, b, k - 1)

NatLess(a, b) ==
    The({ LessFrom(x, y, IF Len(x) > Len(y) THEN Len(x) ELSE Len(y))
          : x \in { a }, y \in { b } })

\* a times the digit v
RECURSIVE TimesFrom(_, _, _, _)
TimesFrom(a, v, k, carry) ==
    IF k > Len(a) THEN << carry >>
    ELSE The({ << prod % Radix >> \o TimesFrom(a, v, k + 1, prod \div Radix)
               : prod \in { a[k] * v + carry } })

RECURSIVE MulFrom(_, _, _)
MulFrom(a, b, k) ==
    IF k > Len(b) THEN << >>
    ELSE NatAdd([ i \in 1..(k - 1) |-> 0 ] \o TimesFrom(a, b[k], 1, 0),
                MulFrom(a, b, k + 1))

NatMul(a, b) == The({ MulFrom(x, y, 1) : x \in { a }, y \in { b } })

\* long division of a by the digit d > 0, from a's k-th digit down:
\* quotient q and remainder r
RECURSIVE DivFrom(_, _, _, _, _)
DivFrom(a, d, k, rem, quot) ==
    IF k = 0 THEN [ q |-> Trim(quot), r |-> rem ]
    ELSE The({ DivFrom(a, d, k - 1, cur % d, << cur \div d >> \o quot)
               : cur \in { rem * Radix + a[k] } })

NatDiv(a, d) == The({ DivFrom(x, y, Len(x), 0, << >>) : x \in { a }, y \in { d } })

\* a * 2^s and a \div 2^s
ShiftLeft(a, s) ==
    The({ Trim([ j \in 1..(Len(x) + q + 1) |->
                   (Digit(x, j - q) % 2^(DigitBits - r)) * 2^r
                     + Digit(x, j - q - 1) \div 2^(DigitBits - r) ])
          : x \in { a }, q \in { s \div DigitBits }, r \in { s % DigitBits } })

ShiftRight(a, s) ==
    The({ Trim([ j \in 1..(Len(x) - q) |->
                   Digit(x, j + q) \div 2^r
                     + (Digit(x, j + q + 1) % 2^r) * 2^(DigitBits - r) ])
          : x \in { a }, q \in { s \div DigitBits }, r \in { s % DigitBits } })

\* the i-th binary digit of a, and whether a has a binary digit 1 among its low s
BinaryDigit(a, i) == (Digit(a, (i - 1) \div DigitBits + 1) \div 2^((i - 1) % DigitBits)) % 2
LowOnes(a, s) == \E i \in 1..s : BinaryDigit(a, i) = 1

\* the number of binary digits of a
BinaryLen(a) ==
    The({ IF Len(x) = 0 THEN 0
          ELSE DigitBits * (Len(x) - 1)
                 + (CHOOSE w \in 1..DigitBits : 2^(w - 1) <= x[Len(x)] /\ x[Len(x)] < 2^w)
          : x \in { a } })

\* the place of the lowest binary digit 1 of a # 0
LowestOne(a) == CHOOSE i \in 1..BinaryLen(a) : BinaryDigit(a, i) = 1 /\ ~ LowOnes(a, i - 1)

(* A non-negative dyadic rational m * 2^e with m odd or zero.  A float64   *)
(* is one whose m has at most Precision binary digits; the exponents of    *)
(* the layout stay far inside the float64 range.                           *)
Dyadic(m, e) ==
    The({ IF Len(x) = 0 THEN [ m |-> << >>, e |-> 0 ]
          ELSE The({ [ m |-> ShiftRight(x, low - 1), e |-> e + low - 1 ]
                     : low \in { LowestOne(x) } })
          : x \in { m } })

\* the numerator of x over the exponent e <= x.e
Over(x, e) == The({ ShiftLeft(v.m, v.e - e) : v \in { x } })

ExactAdd(x, y) ==
    The({ IF v.e < w.e THEN Dyadic(NatAdd(v.m, Over(w, v.e)), v.e)
          ELSE Dyadic(NatAdd(Over(v, w.e), w.m), w.e)
          : v \in { x }, w \in { y } })

\* x - y, for x >= y
ExactSub(x, y) ==
    The({ IF v.e < w.e THEN Dyadic(NatSub(v.m, Over(w, v.e)), v.e)
          ELSE Dyadic(NatSub(Over(v, w.e), w.m), w.e)
          : v \in { x }, w \in { y } })

ExactMul(x, y) ==
    The({ IF Len(v.m) = 0 \/ Len(w.m) = 0 THEN Dyadic(<< >>, 0)
          ELSE Dyadic(NatMul(v.m, w.m), v.e + w.e)
          : v \in { x }, w \in { y } })

ExactLess(x, y) ==
    The({ IF v.e < w.e THEN NatLess(v.m, Over(w, v.e)) ELSE NatLess(Over(v, w.e), w.m)
          : v \in { x }, w \in { y } })

ExactLeq(x, y) == ~ ExactLess(y, x)

\* z.m cut to Precision binary digits, drop > 0 digits being cut, and made
\* one larger where the digits cut are more than a half, or a half and the
\* last digit kept is odd
RoundedTo(z, drop, sticky) ==
    The({ Dyadic(IF BinaryDigit(z.m, drop) = 1
                    /\ (sticky \/ LowOnes(z.m, drop - 1) \/ BinaryDigit(kept, 1) = 1)
                 THEN NatAdd(kept, << 1 >>) ELSE kept,
                 z.e + drop)
          : kept \in { ShiftRight(z.m, drop) } })

(* IEEE 754 round to nearest, ties to even, of (z.m + f) * 2^z.e to        *)
(* Precision binary digits, where 0 <= f < 1 and sticky says f > 0.        *)
Round(z, sticky) ==
    The({ The({ IF len <= Precision THEN Dyadic(v.m, v.e)
                ELSE RoundedTo(v, len - Precision, sticky)
                : len \in { BinaryLen(v.m) } })
          : v \in { z } })

\* the float64 of an integer constant small enough to be exact
Float(n) == Dyadic(Digits(n), 0)

FAdd(x, y) == Round(ExactAdd(x, y), FALSE)
FSub(x, y) == Round(ExactSub(x, y), FALSE)
FMul(x, y) == Round(ExactMul(x, y), FALSE)

\* x * y + z rounded once: the fused operation a Go compiler may emit
FusedMulAdd(x, y, z) == Round(ExactAdd(ExactMul(x, y), z), FALSE)

\* x / y for y > 0 with a significand of one Radix digit: the quotient is
\* taken to at least Precision + 2 binary digits before it is rounded
FDiv(x, y) ==
    The({ IF Len(v.m) = 0 \/ Len(w.m) # 1 THEN Dyadic(<< >>, 0)
          ELSE The({ Round([ m |-> d.q, e |-> v.e - w.e - (DigitBits + Precision + 2) ],
                           d.r > 0)
                     : d \in { NatDiv(ShiftLeft(v.m, DigitBits + Precision + 2), w.m[1]) } })
          : v \in { x }, w \in { y } })

(* ============================ exportToPDF ============================= *)
\* the float64 nearest to the literals 0.6 and 0.4, and a bottom band of a half
TopShare == FDiv(Float(6), Float(10))
BottomShareHalf == FDiv(Float(5), Float(10))
BottomShare == FDiv(Float(4), Float(10))

pageWidth == Float(420)
pageHeight == Float(297)
margin == Float(10)

topHeight == FMul(FSub(pageHeight, FMul(Float(2), margin)), TopShare)
bottomHeight == FMul(FSub(pageHeight, FMul(Float(2), margin)), BottomShare)
colWidth == FDiv(FSub(pageWidth, FMul(Float(2), margin)), Float(5))

\* the values x takes: margin + colWidth, then x += colWidth three times
columns ==
    LET x1 == FAdd(margin, colWidth)
        x2 == FAdd(x1, colWidth)
        x3 == FAdd(x2, colWidth)
    IN  << x1, x2, x3, FAdd(x3, colWidth) >>

\* y = margin + topHeight, the product and the sum rounded one after the other
\* or, where the compiler fuses them, once
bottomEdges ==
    { FAdd(margin, topHeight),
      FusedMulAdd(FSub(pageHeight, FMul(Float(2), margin)), TopShare, margin) }

\* the position and size arguments of the nine drawSection calls, in order,
\* with the Entry whose Text is the content, for each value of the second y
frames ==
  [ yBottom \in bottomEdges |->
    LET y == margin
        halfWidth == FDiv(FSub(pageWidth, FMul(Float(2), margin)), Float(2))
    IN  << [ x |-> margin, y |-> y, w |-> colWidth, h |-> topHeight,
             title |-> "Key Partners", entry |-> "keyPartners" ],
           [ x |-> columns[1], y |-> y, w |-> colWidth, h |-> FDiv(topHeight, Float(2)),
             title |-> "Key Activities", entry |-> "keyActivities" ],
           [ x |-> columns[1], y |-> FAdd(y, FDiv(topHeight, Float(2))), w |-> colWidth,
             h |-> FDiv(topHeight, Float(2)),
             title |-> "Key Resources", entry |-> "keyResources" ],
           [ x |-> columns[2], y |-> y, w |-> colWidth, h |-> topHeight,
             title |-> "Value Proposition", entry |-> "valueProposition" ],
           [ x |-> columns[3], y |-> y, w |-> colWidth, h |-> FDiv(topHeight, Float(2)),
             title |-> "Customer Relationships", entry |-> "customerRel" ],
           [ x |-> columns[3], y |-> FAdd(y, FDiv(topHeight, Float(2))), w |-> colWidth,
             h |-> FDiv(topHeight, Float(2)),
             title |-> "Channels", entry |-> "channels" ],
           [ x |-> columns[4], y |-> y, w |-> colWidth, h |-> topHeight,
             title |-> "Customer Segments", entry |-> "customerSegments" ],
           [ x |-> margin, y |-> yBottom, w |-> halfWidth, h |-> bottomHeight,
             title |-> "Cost Structure", entry |-> "costStructure" ],
           [ x |-> FAdd(margin, halfWidth), y |-> yBottom, w |-> halfWidth,
             h |-> bottomHeight,
             title |-> "Revenue Streams", entry |-> "revenueStreams" ] >> ]

\* drawSection(pdf, x, y, w, h, title, content): pdf.Rect(x, y, w, h, "D") and the texts
drawSection(x, y, w, h, title, content) ==
    [ x |-> x, y |-> y, w |-> w, h |-> h, title |-> title, content |-> content ]

\* what exportToPDF draws of the texts t
Sections(t, yBottom) ==
    [ i \in DOMAIN frames[yBottom] |->
        The({ drawSection(frame.x, frame.y, frame.w, frame.h, frame.title, t[frame.entry])
              : frame \in { frames[yBottom][i] } }) ]

\* what the file-save dialog and pdf.Output can do
ExportOutcomes == { "dialogError", "cancelled", "writeError", "ok" }

(* exportToPDF(): the page is drawn before the file-save dialog opens *)
ExportToPDF(outcome) ==
    /\ Enter
    /\ \E yBottom \in bottomEdges : rects' = Sections(text, yBottom)
    /\ handler' = "export:" \o outcome
    /\ chain' = NoChain
    /\ NothingInstalled
    /\ UNCHANGED << autoSave, undoStack, redoStack, file, results >>
    /\ UNCHANGED autoVars
    /\ UNCHANGED ioVars

(* ======================= the autosave goroutine ======================= *)
(* The clock; the ticker puts a tick into ticker.C every TickerPeriod and  *)
(* drops it when the channel is still full.                                *)
Advance ==
    /\ now < horizon
    /\ now' = now + 1
    /\ tickC' = (tickC \/ now' % TickerPeriod = 0)
    /\ UNCHANGED << text, autoSave, lastSaved, undoStack, redoStack, versions,
                    progress, file, pc, lastState, apc, version, handler,
                    opsLeft, horizon, chain, idleData, results, rects, saved, opened >>

\* the guard without the elapsed-since-last-save check
SaveDueWhenEnabled == autoSave

\* the guard of autoSaveRoutine
SaveDue == autoSave /\ now - lastSaved >= SaveInterval

(* autoSaveRoutine: one iteration of `for range ticker.C` up to the guard *)
Receive ==
    /\ apc = 0
    /\ tickC
    /\ tickC' = FALSE
    /\ apc' = IF SaveDue THEN 1 ELSE 0
    /\ UNCHANGED << text, autoSave, lastSaved, undoStack, redoStack, versions,
                    progress, file, now, pc, lastState, version, handler,
                    opsLeft, horizon, chain, idleData, results, rects, saved, opened >>

(* saveCurrentVersion: uuid.New() and time.Now() of the Version literal *)
Stamp ==
    /\ apc = 1
    /\ version' = [ ID |-> Len(versions) + 1, Timestamp |-> now,
                    Data |-> EmptyData, Comments |-> << >> ]
    /\ apc' = 2
    /\ UNCHANGED << text, autoSave, lastSaved, undoStack, redoStack, versions,
                    progress, file, now, tickC, pc, lastState, handler,
                    opsLeft, horizon, chain, idleData, results, rects, saved, opened >>

(* getCurrentData on the autosave goroutine: one Entry's Text at a time,   *)
(* with nothing to keep the UI thread from writing in between.             *)
ReadEntry ==
    /\ apc \in 2..(NumSections + 1)
    /\ version' = [ version EXCEPT !.Data = ReadField(@, apc - 1) ]
    /\ apc' = apc + 1
    /\ UNCHANGED << text, autoSave, lastSaved, undoStack, redoStack, versions,
                    progress, file, now, tickC, pc, lastState, handler,
                    opsLeft, horizon, chain, idleData, results, rects, saved, opened >>

\* saveCurrentVersion that keeps the latest Version only
AppendKeepsLatest ==
    /\ apc = NumSections + 2
    /\ versions' = << version >>
    /\ lastSaved' = now
    /\ progress' = FilledSections(text)
    /\ apc' = 0
    /\ version' = NoVersion
    /\ UNCHANGED << text, autoSave, undoStack, redoStack, file, now, tickC, pc,
                    lastState, handler, opsLeft, horizon, chain, idleData, results, rects, saved, opened >>

(* saveCurrentVersion: the append, lastSaved and updateProgress *)
AppendVersion ==
    /\ apc = NumSections + 2
    /\ versions' = Append(versions, version)
    /\ lastSaved' = now
    /\ progress' = FilledSections(text)
    /\ apc' = 0
    /\ version' = NoVersion
    /\ UNCHANGED << text, autoSave, undoStack, redoStack, file, now, tickC, pc,
                    lastState, handler, opsLeft, horizon, chain, idleData, results, rects, saved, opened >>

(* ======================= the specifications =========================== *)
Next ==
    \/ \E w \in TypedWidgets, t \in Typed : Type(w, t)
    \/ \E checked \in BOOLEAN : SetAutoSave(checked)
    \/ Undo
    \/ Redo
    \/ \E outcome \in SaveOutcomes : SaveCanvas(outcome)
    \/ \E outcome \in LoadOutcomes, doc \in OpenableDocs : LoadCanvas(outcome, doc)
    \/ \E id \in 1..Len(versions) : RestoreVersion(id)
    \/ SetText
    \/ Advance
    \/ Receive
    \/ Stamp
    \/ ReadEntry
    \/ AppendVersion

Spec == Init /\ [][Next]_vars

\* the handlers of the UI thread alone
NextSession ==
    \/ \E w \in TypedWidgets, t \in Typed : Type(w, t)
    \/ \E checked \in BOOLEAN : SetAutoSave(checked)
    \/ Undo
    \/ Redo
    \/ \E outcome \in SaveOutcomes : SaveCanvas(outcome)
    \/ \E outcome \in LoadOutcomes, doc \in OpenableDocs : LoadCanvas(outcome, doc)
    \/ \E id \in 1..Len(versions) : RestoreVersion(id)
    \/ SetText

SpecSession == InitSession /\ [][NextSession]_vars

(* The typed canvas: every Entry holds what the user typed before any      *)
(* handler runs, and the user then validates and exports it.               *)
Fill(n) == [ i \in 1..n |-> "x" ]

\* the lengths typed into an Entry with a rule: nothing, one byte short of the
\* rule's minimum, the minimum, and the longest text
RuleLengths(w) ==
    LET rule == rules[CHOOSE i \in DOMAIN rules : rules[i].entry = w]
    IN  << 0, rule.min - 1, rule.min, MaxLen >>

\* the Entries no rule looks at are all left empty or all filled
PlainLengths == { 0, MaxLen }

RuleEntries == { rules[i].entry : i \in DOMAIN rules }

InitTools ==
    /\ \E pick \in [ RuleEntries -> 1..4 ], plain \in PlainLengths :
          text = [ w \in Range(Widgets) |->
                     IF w \in RuleEntries THEN Fill(RuleLengths(w)[pick[w]])
                     ELSE Fill(plain) ]
    /\ autoSave = TRUE
    /\ lastSaved = ZeroTime
    /\ undoStack = << >>
    /\ redoStack = << >>
    /\ versions = << >>
    /\ progress = FilledSections(text)
    /\ file = NoFile
    /\ now = 0
    /\ tickC = FALSE
    /\ pc = 0
    /\ lastState = EmptyData
    /\ apc = 0
    /\ version = NoVersion
    /\ handler = "none"
    /\ chain = NoChain
    /\ idleData = { EmptyData, DataOf(text) }
    /\ results = << >>
    /\ rects = << >>
    /\ saved = EmptyData
    /\ opened = NoFile
    /\ opsLeft = ToolOps
    /\ horizon = MaxTime

(* Pasting, saving and loading: the user pastes into the Entries, saves    *)
(* the canvas and opens documents, RoundTripOps handlers in all.           *)
InitRoundTrip == Start /\ opsLeft = RoundTripOps /\ horizon = MaxTime

NextRoundTrip ==
    \/ \E w \in PasteWidgets, content \in Clipboard : Paste(w, content)
    \/ \E outcome \in SaveOutcomes : SaveCanvas(outcome)
    \/ \E outcome \in LoadOutcomes, doc \in OpenableDocs : LoadCanvas(outcome, doc)
    \/ SetText

SpecRoundTrip == InitRoundTrip /\ [][NextRoundTrip]_vars

NextTools ==
    \/ ValidateCanvas
    \/ \E outcome \in ExportOutcomes : ExportToPDF(outcome)

SpecTools == InitTools /\ [][NextTools]_vars

(* ============================== claims ================================ *)
\* the live record: the nine Entry texts as a CanvasData
Live == DataOf(text)

\* this step is the user triggering a handler
Triggered == opsLeft' # opsLeft

\* this step is the last SetText of a handler, with updateProgress
Installed == pc = NumSections /\ pc' = 0

IsPrefix(s, t) == Len(s) <= Len(t) /\ \A i \in 1..Len(s) : t[i] = s[i]

\* the snapshot undo() would install, and the one redo() would
NextUndo == undoStack[Len(undoStack)]
NextRedo == redoStack[Len(redoStack)]

(* C1: with live record A, a load or a restore pushes A onto the undo     *)
(* stack and installs B; an undo() right after it installs A, and a       *)
(* redo() right after that installs B again, whatever the history before. *)
C1_UndoRedoRoundTrip ==
    /\ chain.phase = 1 =>
          /\ Len(undoStack) > 0 /\ NextUndo = chain.A
          /\ pc = 0 => Live = chain.B
    /\ chain.phase = 2 /\ pc = 0 => Live = chain.A
    /\ chain.phase = 3 /\ pc = 0 => Live = chain.B

\* a load -> undo -> redo or restore -> undo -> redo has run to its end, between two
\* different records and over an earlier checkpoint
C1_Witness ==
    /\ chain.phase = 3 /\ pc = 0
    /\ chain.A # chain.B
    /\ Len(undoStack) >= 2
    /\ undoStack[1] # chain.A

(* C2: undo() on an empty undo stack and redo() on an empty redo stack    *)
(* change nothing: the live record, both stacks and the version list are  *)
(* as they were, and nothing is left to install.                          *)
C2_EmptyIsNoOp ==
    [][ Triggered /\ handler' \in { "undo:empty", "redo:empty" } =>
          /\ UNCHANGED << text, undoStack, redoStack, versions >>
          /\ pc' = 0 ]_vars

\* undo() has just found its stack empty while the session has a live record and a
\* redo stack to lose
C2_Witness ==
    /\ handler = "undo:empty"
    /\ redoStack # << >>
    /\ Live # EmptyData

(* C5: a load whose read fails or whose document is malformed leaves all  *)
(* nine fields of the live record as they were and installs nothing.      *)
C5_FailedLoadKeepsLive ==
    [][ Triggered /\ handler' \in { "load:readError", "load:parseError" } =>
          /\ text' = text
          /\ pc' = 0 ]_vars

\* a malformed document was opened over a canvas that has content
C5_Witness ==
    /\ handler = "load:parseError"
    /\ pc = 0
    /\ Live # EmptyData

(* C6: a load or save aborted by an I/O or parse failure leaves the undo  *)
(* stack and the redo stack as they were: nothing is pushed for an        *)
(* operation that did not complete.                                        *)
C6_FailedLoadSaveKeepsStacks ==
    [][ Triggered /\ handler' \in { "load:readError", "load:parseError",
                                     "save:writeError" } =>
          UNCHANGED << undoStack, redoStack >> ]_vars

(* C8: restore(v) pushes the live record as it was onto the undo stack    *)
(* and installs exactly v's stored record; an undo() right after the      *)
(* restore brings the pre-restore live record back.                       *)
C8_RestoreCheckpoints ==
    chain.kind = "restore" =>
        /\ chain.phase = 1 =>
              /\ Len(undoStack) > 0 /\ NextUndo = chain.A
              /\ pc = 0 => Live = chain.B
        /\ chain.phase = 2 =>
              /\ Len(redoStack) > 0 /\ NextRedo = chain.B
              /\ pc = 0 => Live = chain.A

\* a version was restored over a different live record and undo() has run after it
C8_Witness ==
    /\ chain.kind = "restore" /\ chain.phase = 2 /\ pc = 0
    /\ chain.A # chain.B
    /\ chain.A # EmptyData

(* C9 as stated: typing does not clear the redo stack, and a successful   *)
(* save or load leaves the redo stack empty.                              *)
C9_RedoClearedBySaveLoad ==
    [][ /\ Triggered /\ handler' = "type" => redoStack' = redoStack
        /\ Triggered /\ handler' = "save:ok" => redoStack' = << >>
        /\ Installed /\ handler = "load:ok" => redoStack' = << >> ]_vars

(* C9 as amended: neither typing nor save nor load clears the redo stack. *)
(* A save or load that gets its file pushes the live record onto the undo *)
(* stack and leaves the redo stack as it was, to the end of the handler;  *)
(* the redo stack shrinks only in redo().                                 *)
C9_RedoNeverCleared ==
    [][ /\ Triggered /\ handler' = "type" => redoStack' = redoStack
        /\ Triggered /\ handler' \in { "save:ok", "load:ok" } =>
              /\ redoStack' = redoStack
              /\ undoStack' = Append(undoStack, Live)
        /\ handler = "load:ok" /\ handler' = handler => redoStack' = redoStack
        /\ Len(redoStack') < Len(redoStack) => Triggered /\ handler' = "redo" ]_vars

\* a load has installed its document, and a save has succeeded, with the redo stack
\* still holding a snapshot
C9_Witness ==
    /\ handler \in { "load:ok", "save:ok" }
    /\ pc = 0
    /\ redoStack # << >>

(* C3: every Version the autosave goroutine appends holds a record whose *)
(* nine fields are the live record as it stood at one instant between     *)
(* complete handlers of the UI thread.                                    *)
C3_NoTornSnapshot ==
    [][ versions' # versions =>
          versions'[Len(versions')].Data \in idleData ]_vars

(* C4: two consecutive Versions are stamped at least SaveInterval apart,  *)
(* and a Version under construction is stamped at least SaveInterval      *)
(* after lastSaved, however late the ticks are taken from the channel.    *)
C4_OncePerInterval ==
    /\ \A i \in 1..(Len(versions) - 1) :
          versions[i + 1].Timestamp - versions[i].Timestamp >= SaveInterval
    /\ \A i \in 1..Len(versions) : lastSaved >= versions[i].Timestamp
    /\ apc >= 2 => version.Timestamp - lastSaved >= SaveInterval

\* the autosave goroutine has recorded two Versions
C4_Witness == Len(versions) = 2

(* C7: the version list only grows at its end: in every step the list     *)
(* before is a prefix of the list after, so no entry is removed,          *)
(* reordered or modified, by a restore or by anything else.               *)
C7_AppendOnly == [][ IsPrefix(versions, versions') ]_vars

\* the live record was replaced after the first Version was recorded, a second Version
\* was appended, and the first one still holds the empty canvas it recorded
C7_Witness ==
    /\ Len(versions) = 2
    /\ pc = 0 /\ handler \in { "load:ok", "type" }
    /\ versions[1].Data = EmptyData
    /\ versions[2].Data = Live /\ Live # EmptyData

(* C10: a firing enters saveCurrentVersion only when autosave is enabled  *)
(* and SaveInterval has elapsed since lastSaved; it appends exactly one   *)
(* Version, which holds the live record as it stood between complete      *)
(* handlers, and sets lastSaved; no step of the firing changes the live   *)
(* record, the undo stack or the redo stack.                              *)
C10_FiringRecordsLive ==
    [][ /\ apc = 0 /\ apc' = 1 => autoSave /\ now - lastSaved >= SaveInterval
        /\ apc = 0 /\ tickC /\ ~ tickC' /\ autoSave /\ now - lastSaved >= SaveInterval
              => apc' = 1
        /\ versions' # versions =>
              /\ Len(versions') = Len(versions) + 1
              /\ IsPrefix(versions, versions')
              /\ versions'[Len(versions')].Data \in idleData
              /\ lastSaved' = now
        /\ apc' # apc => UNCHANGED << text, undoStack, redoStack >> ]_vars

(* C11: Validate returns one result per failing rule and nothing else, in *)
(* the order Value Proposition, Customer Segments, Key Activities, Cost   *)
(* Structure, Revenue Streams: Value Proposition appears iff its text is  *)
(* shorter than 100, each of the other four iff its text is shorter than  *)
(* 50, and no other section ever appears; a 120-character Value           *)
(* Proposition with every other Entry empty yields exactly Customer       *)
(* Segments, Key Activities, Cost Structure, Revenue Streams.             *)
DeclaredOrder == << "Value Proposition", "Customer Segments", "Key Activities",
                    "Cost Structure", "Revenue Streams" >>

TooShort(section, t) ==
    CASE section = "Value Proposition" -> Len(t.valueProposition) < 100
      [] section = "Customer Segments" -> Len(t.customerSegments) < 50
      [] section = "Key Activities"    -> Len(t.keyActivities) < 50
      [] section = "Cost Structure"    -> Len(t.costStructure) < 50
      [] section = "Revenue Streams"   -> Len(t.revenueStreams) < 50

PlaceOf(section) == CHOOSE k \in DOMAIN DeclaredOrder : DeclaredOrder[k] = section

OneResultPerFailingRule(found, t) ==
    /\ \A i \in DOMAIN found : found[i].Section \in Range(DeclaredOrder)
    /\ \A section \in Range(DeclaredOrder) :
          Cardinality({ i \in DOMAIN found : found[i].Section = section })
             = IF TooShort(section, t) THEN 1 ELSE 0
    /\ \A i, j \in DOMAIN found :
          i < j => PlaceOf(found[i].Section) < PlaceOf(found[j].Section)

OnlyValuePropositionWritten(t) ==
    /\ Len(t.valueProposition) = 120
    /\ \A w \in Range(Widgets) \ { "valueProposition" } : Len(t[w]) = 0

Right(r) == ExactAdd(r.x, r.w)
Bottom(r) == ExactAdd(r.y, r.h)

InsideContent(r) ==
    /\ ExactLess(Float(0), r.w) /\ ExactLess(Float(0), r.h)
    /\ ExactLeq(Float(10), r.x) /\ ExactLeq(Right(r), Float(420 - 10))
    /\ ExactLeq(Float(10), r.y) /\ ExactLeq(Bottom(r), Float(297 - 10))

Apart(r, q) ==
    \/ ExactLeq(Right(r), q.x) \/ ExactLeq(Right(q), r.x)
    \/ ExactLeq(Bottom(r), q.y) \/ ExactLeq(Bottom(q), r.y)

\* the exact sum of the areas of rectangles lo..hi
RECURSIVE Area(_, _, _)
Area(drawn, lo, hi) ==
    IF lo = hi THEN ExactMul(drawn[lo].w, drawn[lo].h)
    ELSE LET mid == (lo + hi) \div 2
         IN  ExactAdd(Area(drawn, lo, mid), Area(drawn, mid + 1, hi))

Tiles(drawn) ==
    /\ Len(drawn) = 9
    /\ \A i \in DOMAIN drawn : InsideContent(drawn[i])
    /\ \A i, j \in DOMAIN drawn : i < j => Apart(drawn[i], drawn[j])
    /\ Area(drawn, 1, 9) = Float((420 - 2 * 10) * (297 - 2 * 10))

\* the rectangles of a drawing, without the texts
Rectangles(drawn) ==
    [ i \in DOMAIN drawn |->
        [ x |-> drawn[i].x, y |-> drawn[i].y, w |-> drawn[i].w, h |-> drawn[i].h ] ]

\* the rectangles of the page, which no text changes, and those that tile
PageLayouts == { Rectangles(frames[yBottom]) : yBottom \in bottomEdges }
TilingLayouts == { layout \in PageLayouts : Tiles(layout) }

C12_RectanglesTile ==
    [][ Triggered /\ handler' \in { "export:" \o outcome : outcome \in ExportOutcomes }
          => Rectangles(rects') \in TilingLayouts ]_vars

\* an export has drawn the page; the heights 166.2 and 110.8 are no float64, and
\* the top band is drawn a little lower and the bottom band a little higher
C12_Witness ==
    /\ handler = "export:ok"
    /\ Len(rects) = 9
    /\ ExactLess(ExactMul(Float(10), rects[1].h), Float(1662))
    /\ ExactLess(Float(1108), ExactMul(Float(10), rects[8].h))

(* C13: saving the live record to a file and loading that file back       *)
(* installs a live record identical, field for field, to the one saved:   *)
(* as first stated, for any field values.                                 *)
LoadedSavedFile ==
    /\ Installed
    /\ handler = "load:ok"
    /\ opened = file

C13_RoundTripAnyValues ==
    [][ LoadedSavedFile => Live' = saved ]_vars

(* C13, amended: the round trip is the identity for every field value     *)
(* that is valid UTF-8, empty strings, whitespace, newlines, quotes and   *)
(* backslashes included; every byte that is not part of a valid UTF-8     *)
(* character comes back as U+FFFD, and nothing else changes.              *)
InCharacter(s, i) ==
    \E j \in { i - 2, i - 1, i } :
        j >= 1 /\ j + 2 <= Len(s) /\ << s[j], s[j + 1], s[j + 2] >> = Replacement

IsValidUTF8(s) ==
    \A i \in DOMAIN s : s[i] \in HighBytes => InCharacter(s, i)

RECURSIVE Coerced(_, _)
Coerced(s, i) ==
    IF i > Len(s) THEN << >>
    ELSE IF s[i] \in HighBytes /\ ~ InCharacter(s, i)
    THEN Replacement \o Coerced(s, i + 1)
    ELSE << s[i] >> \o Coerced(s, i + 1)

C13_RoundTripValidText ==
    [][ LoadedSavedFile =>
          \A f \in Range(DataFields) :
              /\ Live'[f] = Coerced(saved[f], 1)
              /\ IsValidUTF8(saved[f]) => Live'[f] = saved[f] ]_vars

\* a canvas with a space and a newline in it has been saved, changed, and
\* loaded back from the file
C13_Witness ==
    /\ handler = "load:ok" /\ pc = 0
    /\ opened = file
    /\ saved.CustomerRel = << " ", "\n", "a" >>
    /\ Live = saved
    /\ Len(undoStack) = 2 /\ undoStack[2] # saved

(* C14: a successful undo() pops exactly the top snapshot of the undo     *)
(* stack, installs it as the live record and pushes the live record it    *)
(* found onto the redo stack; a successful redo() does the same from the  *)
(* redo stack to the undo stack. So from the moment the handler is        *)
(* triggered until its last SetText, the records held in the undo stack,  *)
(* the redo stack and the live record together are the same multiset, and *)
(* len(undo)+len(redo) is the same number.                                *)
\* the record that is live between handlers, or that the handler is installing
Pending == IF pc = 0 THEN Live ELSE lastState

\* how many times record d is held in stacks u and r and as record p
Copies(d, u, r, p) ==
    Cardinality({ i \in DOMAIN u : u[i] = d })
      + Cardinality({ i \in DOMAIN r : r[i] = d })
      + (IF p = d THEN 1 ELSE 0)

Held(u, r, p) == Range(u) \cup Range(r) \cup { p }

\* this step is undo() or redo() being triggered on a stack that is not empty
UndoTriggered == Triggered /\ handler' = "undo"
RedoTriggered == Triggered /\ handler' = "redo"

\* this step is one of the nine SetText of undo() or redo()
Restoring == pc # 0 /\ handler \in { "undo", "redo" }

C14_UndoRedoConserve ==
    [][ /\ UndoTriggered =>
              /\ lastState' = NextUndo
              /\ undoStack' = SubSeq(undoStack, 1, Len(undoStack) - 1)
              /\ redoStack' = redoStack \o << Live >>
        /\ RedoTriggered =>
              /\ lastState' = NextRedo
              /\ redoStack' = SubSeq(redoStack, 1, Len(redoStack) - 1)
              /\ undoStack' = undoStack \o << Live >>
        /\ Restoring /\ Installed => Live' = lastState
        /\ UndoTriggered \/ RedoTriggered \/ Restoring =>
              /\ Len(undoStack') + Len(redoStack') = Len(undoStack) + Len(redoStack)
              /\ \A d \in Held(undoStack, redoStack, Pending)
                             \cup Held(undoStack', redoStack', Pending') :
                     Copies(d, undoStack', redoStack', Pending')
                       = Copies(d, undoStack, redoStack, Pending) ]_vars

\* a document loaded over a typed canvas was undone and redone: redo() has
\* installed the loaded record and pushed the typed one undo() had brought back
C14_Witness ==
    /\ handler = "redo" /\ pc = 0
    /\ Len(undoStack) >= 1
    /\ redoStack = << >>
    /\ Top(undoStack) # EmptyData
    /\ Live # Top(undoStack)
    /\ Live # EmptyData

(* C15: with autosave enabled throughout and the timer period equal to    *)
(* the save interval, no timer firing is skipped: every tick the autosave *)
(* goroutine takes from ticker.C, the user having touched nothing, passes *)
(* the guard and enters saveCurrentVersion.                               *)
\* this step is the goroutine taking a tick from ticker.C
TickTaken == apc = 0 /\ tickC /\ ~ tickC'

\* autosave is as the application started it: the user has triggered no handler
Untouched == opsLeft = MaxOps /\ autoSave

C15_NoFiringSkipped ==
    [][ TickTaken /\ Untouched /\ TickerPeriod = SaveInterval => apc' = 1 ]_vars

=============================================================================
